---- MODULE Spec2Model ----
(***************************************************************************)
(* Model of log_analyzer.py: main() scanning a log file with grep_file,    *)
(* extracting each matching line's timestamp with get_time, printing the   *)
(* line rewritten by process_line and averaging the time between matches   *)
(* with get_average.                                                       *)
(*                                                                         *)
(* Times are whole seconds relative to 01/Jan/2020:00:00:00; a timestamp   *)
(* as written in a line is a wall-clock reading plus the UTC offset it is  *)
(* written with, and the instant it names is wall - off.  Durations        *)
(* (timedelta) are integers in microseconds.                               *)
(***************************************************************************)
EXTENDS Integers, Sequences, FiniteSets, TLC

\* ---------------------------------------------------------------- bounds
MaxLines == 3
MaxSec == 1

\* ------------------------------------------------------------- constants
\* timedelta resolution: microseconds per second
Microsecond == 1000000
\* utcoffset of timezone('US/Pacific') in January (PST), in seconds
PacificOff == -28800

\* ---------------------------------------------------------------- inputs
\* UTC offsets the input timestamps are written with: +0000 and +0001
Offsets == {0, 60}
\* the word a line carries
Texts == {"foo", "bar"}
\* -w argument: two valid regular expressions and one that does not compile
Patterns == {"foo", "bar", "("}

\* a bracketed timestamp: the instants 0..MaxSec, each written with each offset
Stamps ==
  {[bracket |-> "ok", wall |-> s + o, off |-> o] : s \in 0..MaxSec, o \in Offsets}
\* a line without "- - [..]", and one whose bracket holds an invalid month name
BadStamps ==
  {[bracket |-> b, wall |-> 0, off |-> 0] : b \in {"absent", "malformed"}}
LogLines ==
  {[text |-> t, bracket |-> s.bracket, wall |-> s.wall, off |-> s.off] :
     t \in Texts, s \in Stamps \cup BadStamps}
Files == UNION {[1..n -> LogLines] : n \in 0..MaxLines}

NoLine == [text |-> "", bracket |-> "absent", wall |-> 0, off |-> 0]
NoOut == [kind |-> "", text |-> "", wall |-> 0, off |-> 0, count |-> 0, average |-> 0]

VARIABLES
  name_exists,  \* os.path.exists(name)
  pattern,      \* the -w argument
  file,         \* the lines of the file called name
  pc,           \* main's position: the source line about to run, "done", "crashed"
  count,        \* main's count
  timeval,      \* main's timeval list
  l,            \* main's loop variable: the line last yielded
  line,         \* main's line: the rewritten line
  gen,          \* the generator matching_lines: "none", "created", "suspended", "finished"
  patexp,       \* grep_file's patexp: "none" or "compiled"
  handle,       \* grep_file's f: "unopened", "open", "closed"
  pos,          \* number of lines grep_file has read from f
  yielded,      \* number of lines grep_file has yielded
  requests,     \* number of times main has asked matching_lines for a line
  out,          \* what has been printed to standard output
  ret,          \* main's return value (0 or -1) once pc = "done"
  err,          \* the exception that left main once pc = "crashed"
  average,      \* main's average
  avg_calls     \* number of calls of get_average

vars == <<name_exists, pattern, file, pc, count, timeval, l, line, gen, patexp,
          handle, pos, yielded, requests, out, ret, err, average, avg_calls>>

inputs == <<name_exists, pattern, file>>
gen_vars == <<gen, patexp, handle, pos, yielded, requests>>

\* ------------------------------------------------------- pure functions
\* re.compile(pattern) succeeds
ValidRegex(p) == p # "("

\* patexp.search(line): the regular expression occurs somewhere in the line
Search(p, ln) == ValidRegex(p) /\ ln.text = p

\* the first line after position p that patexp.search accepts, 0 when none
NextMatch(p) ==
  LET hits == {i \in (p + 1)..Len(file) : Search(pattern, file[i])}
  IN IF hits = {} THEN 0 ELSE CHOOSE i \in hits : \A j \in hits : i <= j

\* get_time with a bug: a bracket that does not parse yields a default timestamp
get_time_default(ln) ==
  IF ln.bracket = "ok" THEN [err |-> "", wall |-> ln.wall, off |-> ln.off]
  ELSE [err |-> "", wall |-> 0, off |-> 0]

\* get_time: findall()[0] raises IndexError without a bracket, strptime
\* raises ValueError on a malformed date; otherwise an aware datetime
get_time(ln) ==
  IF ln.bracket = "absent" THEN [err |-> "IndexError", wall |-> 0, off |-> 0]
  ELSE IF ln.bracket = "malformed" THEN [err |-> "ValueError", wall |-> 0, off |-> 0]
  ELSE [err |-> "", wall |-> ln.wall, off |-> ln.off]

\* datetime.astimezone(tz): same instant, read on tz's wall clock
astimezone(t, tzoff) == [wall |-> (t.wall - t.off) + tzoff, off |-> tzoff]

\* process_line: the bracketed timestamp replaced by the Pacific reading.
\* The second re.sub rewrites a syslog prefix at the start of the line and
\* leaves a line without one as it is; the lines modelled here carry none.
process_line(ln) ==
  LET t == astimezone(get_time(ln), PacificOff)
  IN [kind |-> "line", text |-> ln.text, wall |-> t.wall, off |-> t.off,
      count |-> 0, average |-> 0]

\* TimeSub with a bug: the wall-clock readings subtracted, offsets ignored
TimeSubNaive(a, b) == (a.wall - b.wall) * Microsecond

\* a - b on aware datetimes: the difference of the instants, a timedelta
TimeSub(a, b) == ((a.wall - a.off) - (b.wall - b.off)) * Microsecond

\* Diff with a bug: every delta taken from the first timestamp
DiffFromFirst(tv) ==
  IF Len(tv) < 2 THEN <<>>
  ELSE [i \in 1..(Len(tv) - 1) |-> ((tv[i + 1].wall - tv[i + 1].off)
                                     - (tv[1].wall - tv[1].off)) * Microsecond]

\* [a - b for b, a in zip(timeval[:-1], timeval[1:])]
Diff(tv) ==
  IF Len(tv) < 2 THEN <<>>
  ELSE [i \in 1..(Len(tv) - 1) |-> TimeSub(tv[i + 1], tv[i])]

\* reduce(lambda a, b: a + b, lst) on a non-empty list
RECURSIVE reduce(_)
reduce(lst) ==
  IF Len(lst) = 1 THEN lst[1]
  ELSE reduce(SubSeq(lst, 1, Len(lst) - 1)) + lst[Len(lst)]

\* timedelta / int: the quotient rounded to the nearest microsecond, ties to even
DivideAndRound(a, b) ==
  LET q == a \div b
      r == 2 * (a % b)
  IN IF r > b \/ (r = b /\ q % 2 = 1) THEN q + 1 ELSE q

get_average(lst) == DivideAndRound(reduce(lst), Len(lst))

\* ------------------------------------------------------------------ Init
Init ==
  /\ name_exists \in BOOLEAN
  /\ pattern \in Patterns
  /\ file \in Files
  /\ (~name_exists => file = <<>>)
  /\ pc = "l156"
  /\ count = 0
  /\ timeval = <<>>
  /\ l = NoLine
  /\ line = NoOut
  /\ gen = "none"
  /\ patexp = "none"
  /\ handle = "unopened"
  /\ pos = 0
  /\ yielded = 0
  /\ requests = 0
  /\ out = <<>>
  /\ ret = 0
  /\ err = ""
  /\ average = 0
  /\ avg_calls = 0

\* --------------------------------------------------------------- actions
Msg(k) == [NoOut EXCEPT !.kind = k]

\* CheckExists with a bug: the existence test left out
CheckExistsSkipped ==
  /\ pc = "l156"
  /\ pc' = "l161"
  /\ UNCHANGED <<inputs, count, timeval, l, line, gen_vars, out, ret, err,
                 average, avg_calls>>

\* main, lines 156-159: the file must exist
CheckExists ==
  /\ pc = "l156"
  /\ IF ~name_exists
       THEN /\ out' = out \o <<Msg("File does not exist"),
                               Msg("Check the input provided again and enter a valid file")>>
            /\ ret' = -1
            /\ pc' = "done"
       ELSE /\ pc' = "l161"
            /\ UNCHANGED <<out, ret>>
  /\ UNCHANGED <<inputs, count, timeval, l, line, gen_vars, err, average, avg_calls>>

\* CallGrepFile with a bug: grep_file an ordinary function that compiles the
\* pattern when it is called
CallGrepFileEager ==
  /\ pc = "l161"
  /\ IF ValidRegex(pattern)
       THEN /\ gen' = "created"
            /\ patexp' = "compiled"
            /\ pc' = "l162"
            /\ UNCHANGED err
       ELSE /\ pc' = "crashed"
            /\ err' = "re.error"
            /\ UNCHANGED <<gen, patexp>>
  /\ UNCHANGED <<inputs, count, timeval, l, line, handle, pos, yielded,
                 requests, out, ret, average, avg_calls>>

\* main, line 161: calling a generator function runs none of its body
CallGrepFile ==
  /\ pc = "l161"
  /\ gen' = "created"
  /\ pc' = "l162"
  /\ UNCHANGED <<inputs, count, timeval, l, line, patexp, handle, pos, yielded,
                 requests, out, ret, err, average, avg_calls>>

\* the index in file of the k-th line that patexp.search accepts, 0 when none
KthMatch(k) ==
  LET hits == {i \in 1..Len(file) :
                 /\ Search(pattern, file[i])
                 /\ Cardinality({j \in 1..i : Search(pattern, file[j])}) = k}
  IN IF hits = {} THEN 0 ELSE CHOOSE i \in hits : TRUE

\* NextLine with a bug: grep_file reads the whole file into a list of
\* matching lines at the first request and closes f before handing any out
NextLineEager ==
  /\ pc = "l162"
  /\ requests' = requests + 1
  /\ IF gen = "created" /\ ~ValidRegex(pattern)
       THEN /\ gen' = "finished"
            /\ pc' = "crashed"
            /\ err' = "re.error"
            /\ UNCHANGED <<patexp, handle, pos, yielded, l>>
       ELSE LET i == KthMatch(yielded + 1) IN
            /\ patexp' = "compiled"
            /\ handle' = "closed"
            /\ pos' = Len(file)
            /\ UNCHANGED err
            /\ IF i # 0
                 THEN /\ yielded' = yielded + 1
                      /\ l' = file[i]
                      /\ gen' = "suspended"
                      /\ pc' = "l163"
                 ELSE /\ gen' = "finished"
                      /\ pc' = "l169"
                      /\ UNCHANGED <<yielded, l>>
  /\ UNCHANGED <<inputs, count, timeval, line, out, ret, average, avg_calls>>

\* main, line 162: the for statement asks matching_lines for its next line;
\* grep_file runs from where it stands to its next yield or to its end
NextLine ==
  /\ pc = "l162"
  /\ requests' = requests + 1
  /\ IF gen = "created" /\ ~ValidRegex(pattern)
       THEN \* re.compile raises re.error, which leaves grep_file and main
            /\ gen' = "finished"
            /\ pc' = "crashed"
            /\ err' = "re.error"
            /\ UNCHANGED <<patexp, handle, pos, yielded, l>>
       ELSE IF gen = "created" /\ ~name_exists
       THEN \* open raises FileNotFoundError
            /\ gen' = "finished"
            /\ patexp' = "compiled"
            /\ pc' = "crashed"
            /\ err' = "FileNotFoundError"
            /\ UNCHANGED <<handle, pos, yielded, l>>
       ELSE LET i == NextMatch(pos) IN
            /\ patexp' = "compiled"
            /\ UNCHANGED err
            /\ IF i # 0
                 THEN \* yield line, inside the with block
                      /\ handle' = "open"
                      /\ pos' = i
                      /\ yielded' = yielded + 1
                      /\ l' = file[i]
                      /\ gen' = "suspended"
                      /\ pc' = "l163"
                 ELSE \* end of file: the with block closes f, StopIteration
                      /\ handle' = "closed"
                      /\ pos' = Len(file)
                      /\ gen' = "finished"
                      /\ pc' = "l169"
                      /\ UNCHANGED <<yielded, l>>
  /\ UNCHANGED <<inputs, count, timeval, line, out, ret, average, avg_calls>>

\* AppendTime with a bug: the timestamp converted to Pacific time is stored
AppendTimeConverted ==
  /\ pc = "l163"
  /\ LET t == get_time(l) IN
       IF t.err # ""
         THEN /\ pc' = "crashed"
              /\ err' = t.err
              /\ UNCHANGED timeval
         ELSE /\ timeval' = Append(timeval, astimezone(t, PacificOff))
              /\ pc' = "l164"
              /\ UNCHANGED err
  /\ UNCHANGED <<inputs, count, l, line, gen_vars, out, ret, average, avg_calls>>

\* main, line 163: timeval.append(get_time(l)); an exception of get_time
\* leaves main while the generator stays suspended at its yield
AppendTime ==
  /\ pc = "l163"
  /\ LET t == get_time(l) IN
       IF t.err # ""
         THEN /\ pc' = "crashed"
              /\ err' = t.err
              /\ UNCHANGED timeval
         ELSE /\ timeval' = Append(timeval, [wall |-> t.wall, off |-> t.off])
              /\ pc' = "l164"
              /\ UNCHANGED err
  /\ UNCHANGED <<inputs, count, l, line, gen_vars, out, ret, average, avg_calls>>

\* main, lines 164-165: line = process_line(l); print(line, end='')
PrintLine ==
  /\ pc = "l164"
  /\ line' = process_line(l)
  /\ out' = Append(out, line')
  /\ pc' = "l166"
  /\ UNCHANGED <<inputs, count, timeval, l, gen_vars, ret, err, average, avg_calls>>

\* main, line 166: count += 1, and back to the for statement
CountLine ==
  /\ pc = "l166"
  /\ count' = count + 1
  /\ pc' = "l162"
  /\ UNCHANGED <<inputs, timeval, l, line, gen_vars, out, ret, err, average, avg_calls>>

\* the printed summary of count matches with their average
Summary(n, avg) ==
  <<[Msg("Counted word") EXCEPT !.text = pattern, !.count = n],
    [Msg("Average time between logged lines") EXCEPT !.average = avg]>>

\* Report with a bug: "count > 0" written "count >= 0"
ReportZeroAsOne ==
  /\ pc = "l169"
  /\ pc' = "done"
  /\ ret' = 0
  /\ IF count > 1
       THEN /\ average' = get_average(Diff(timeval))
            /\ avg_calls' = avg_calls + 1
            /\ out' = out \o Summary(count, average')
       ELSE /\ out' = Append(out, Msg("Found only one matching line"))
            /\ UNCHANGED <<average, avg_calls>>
  /\ UNCHANGED <<inputs, count, timeval, l, line, gen_vars, err>>

\* Report with a bug: "count > 0" written "count > 1"
ReportOneAsZero ==
  /\ pc = "l169"
  /\ pc' = "done"
  /\ IF count > 1
       THEN /\ ret' = 0
            /\ average' = get_average(Diff(timeval))
            /\ avg_calls' = avg_calls + 1
            /\ out' = out \o Summary(count, average')
       ELSE /\ out' = Append(out, [Msg("Did not find") EXCEPT !.text = pattern])
            /\ ret' = -1
            /\ UNCHANGED <<average, avg_calls>>
  /\ UNCHANGED <<inputs, count, timeval, l, line, gen_vars, err>>

\* main, lines 169-186: the summary and the return value
Report ==
  /\ pc = "l169"
  /\ pc' = "done"
  /\ IF count > 0
       THEN LET diff == Diff(timeval) IN
            /\ ret' = 0
            /\ IF count > 1
                 THEN /\ average' = get_average(diff)
                      /\ avg_calls' = avg_calls + 1
                      /\ out' = out \o Summary(count, average')
                 ELSE /\ out' = Append(out, Msg("Found only one matching line"))
                      /\ UNCHANGED <<average, avg_calls>>
       ELSE /\ out' = Append(out, [Msg("Did not find") EXCEPT !.text = pattern])
            /\ ret' = -1
            /\ UNCHANGED <<average, avg_calls>>
  /\ UNCHANGED <<inputs, count, timeval, l, line, gen_vars, err>>

\* the suspended generator is finalized when the interpreter drops it after
\* the exception has left main: GeneratorExit at the yield closes f
Finalize ==
  /\ pc = "crashed"
  /\ gen = "suspended"
  /\ gen' = "finished"
  /\ handle' = "closed"
  /\ UNCHANGED <<inputs, pc, count, timeval, l, line, patexp, pos, yielded,
                 requests, out, ret, err, average, avg_calls>>

Next ==
  \/ CheckExists
  \/ CallGrepFile
  \/ NextLine
  \/ AppendTime
  \/ PrintLine
  \/ CountLine
  \/ Report
  \/ Finalize

Spec == Init /\ [][Next]_vars

\* ============================================================ properties
\* the lines of the file that contain the pattern, in file order
Matches == SelectSeq(file, LAMBDA x : pattern # "(" /\ x.text = pattern)
\* how many of the first p lines of the file contain the pattern
MatchesUpTo(p) ==
  Cardinality({i \in 1..p : pattern # "(" /\ file[i].text = pattern})
\* the absolute instant a written timestamp names
Instant(x) == x.wall - x.off
Abs(x) == IF x < 0 THEN -x ELSE x
\* the rewritten lines printed so far
Printed == SelectSeq(out, LAMBDA o : o.kind = "line")
\* the file order of the matches is not chronological
Unsorted(M) == \E i \in 1..(Len(M) - 1) : Instant(M[i]) > Instant(M[i + 1])
\* a is x / n rounded to the nearest integer
Nearest(a, x, n) == 2 * Abs(a * n - x) <= n

\* sum of Instant(M[i]) - Instant(M[i-1]) for i in 2..Len(M), in microseconds
RECURSIVE SumDeltas(_)
SumDeltas(M) ==
  IF Len(M) < 2 THEN 0
  ELSE SumDeltas(SubSeq(M, 1, Len(M) - 1))
       + (Instant(M[Len(M)]) - Instant(M[Len(M) - 1])) * Microsecond

\* C1: with N >= 2 matching lines that all parse, the run does not fail, returns
\* 0 and reports as average the sum of the consecutive differences of the
\* matches' instants, in file order, divided by N - 1 (to the microsecond);
\* the value depends on the instants only, not on the offsets they are written with
C1_AverageOfDeltas ==
  LET M == Matches
      N == Len(M)
  IN (name_exists /\ N >= 2 /\ \A i \in 1..N : M[i].bracket = "ok") =>
       /\ pc # "crashed"
       /\ pc = "done" =>
            /\ ret = 0
            /\ avg_calls = 1
            /\ Nearest(average, SumDeltas(M), N - 1)
            /\ out[Len(out)].kind = "Average time between logged lines"
            /\ out[Len(out)].average = average

C1_Witness ==
  /\ pc = "done"
  /\ Len(Matches) = 3
  /\ Unsorted(Matches)
  /\ \E i, j \in 1..3 : Matches[i].off # Matches[j].off
  /\ average # 0

\* C2: in an existing file where no line contains the (valid) pattern the run
\* prints no rewritten line and no summary, prints only "Did not find" with
\* the pattern, and returns -1
C2_NoMatch ==
  (name_exists /\ ValidRegex(pattern) /\ Matches = <<>>) =>
    /\ pc # "crashed"
    /\ avg_calls = 0
    /\ pc # "done" => out = <<>>
    /\ pc = "done" =>
         /\ out = <<[Msg("Did not find") EXCEPT !.text = pattern]>>
         /\ ret = -1

C2_Witness ==
  /\ pc = "done"
  /\ name_exists
  /\ ValidRegex(pattern)
  /\ Matches = <<>>
  /\ Len(file) >= 2
  /\ ret = -1

\* C3: with exactly one matching line, whose timestamp parses, the run prints
\* that line rewritten (same instant, Pacific offset), then "Found only one
\* matching line", never calls get_average and returns 0
C3_OneMatch ==
  (name_exists /\ Len(Matches) = 1 /\ Matches[1].bracket = "ok") =>
    /\ pc # "crashed"
    /\ avg_calls = 0
    /\ pc = "done" =>
         /\ ret = 0
         /\ Len(out) = 2
         /\ out[1].kind = "line"
         /\ out[1].text = Matches[1].text
         /\ Instant(out[1]) = Instant(Matches[1])
         /\ out[1].off = PacificOff
         /\ out[2] = Msg("Found only one matching line")

C3_Witness ==
  /\ pc = "done"
  /\ Len(Matches) = 1
  /\ Len(file) >= 2
  /\ Matches[1].off # 0
  /\ Len(out) = 2

TwoLineDiagnostic ==
  <<Msg("File does not exist"),
    Msg("Check the input provided again and enter a valid file")>>

\* C4: when the file does not exist the generator is never created, the
\* pattern never compiled, the file never opened, no line requested or read;
\* the two-line diagnostic is printed and -1 returned, also for an invalid pattern
C4_NotFound ==
  ~name_exists =>
    /\ gen = "none"
    /\ patexp = "none"
    /\ handle = "unopened"
    /\ requests = 0
    /\ pos = 0
    /\ pc \in {"l156", "done"}
    /\ pc = "l156" => out = <<>>
    /\ pc = "done" => (out = TwoLineDiagnostic /\ ret = -1)

C4_Witness ==
  /\ ~name_exists
  /\ ~ValidRegex(pattern)
  /\ pc = "done"
  /\ ret = -1

\* what the run has printed is the first n matching lines, rewritten, in order
PrintedFirst(n) ==
  /\ Len(Printed) = n
  /\ \A i \in 1..n : /\ Printed[i].text = Matches[i].text
                     /\ Instant(Printed[i]) = Instant(Matches[i])
                     /\ out[i] = Printed[i]

C5_State ==
  name_exists =>
    /\ Len(Printed) <= Len(Matches)
    /\ PrintedFirst(Len(Printed))
    /\ Len(out) > Len(Printed) =>
         (pc = "done" /\ pos = Len(file) /\ Len(Printed) = Len(Matches))
    /\ (pc = "crashed" /\ err # "re.error") =>
         (out = Printed /\ Len(out) = yielded - 1)
    /\ (pc = "crashed" /\ err = "re.error") => out = <<>>

C5_Step ==
  /\ pos' # pos => Len(Printed) = MatchesUpTo(pos)
  /\ Len(Printed') > Len(Printed) =>
       (MatchesUpTo(pos) = Len(Printed') /\ pos' = pos)

\* C5: every matching line read so far has been printed, rewritten and in file
\* order, before the file is read any further; a message other than a rewritten
\* line is printed only after the file has been read to its end; and when the
\* k-th matching line raises a fatal error exactly the first k - 1 rewritten
\* lines have been printed
C5_Streaming == [](C5_State) /\ [][C5_Step]_vars

C5_Witness ==
  /\ pc = "crashed"
  /\ yielded = 3
  /\ Len(out) = 2
  /\ handle = "open"

\* C6: the file handle is never open before the first line is requested and
\* is not open when the run has ended, by a return or by a fatal error
C6_HandleReleased ==
  /\ requests = 0 => handle = "unopened"
  /\ pc \in {"done", "crashed"} => handle # "open"

\* the first matching line whose timestamp does not parse, 0 when there is none
FirstBad ==
  LET bad == {k \in 1..Len(Matches) : Matches[k].bracket # "ok"}
  IN IF bad = {} THEN 0 ELSE CHOOSE k \in bad : \A j \in bad : k <= j

\* C7: a matching line whose bracketed timestamp is absent or malformed ends
\* the run with the error of get_time (IndexError, ValueError): no timestamp
\* is stored for it, it is not printed, no later line is yielded, no message
\* is printed and the run does not return
C7_BadTimestamp ==
  (name_exists /\ FirstBad # 0) =>
    /\ pc # "done"
    /\ avg_calls = 0
    /\ yielded <= FirstBad
    /\ Len(timeval) < FirstBad
    /\ out = Printed
    /\ Len(out) < FirstBad
    /\ yielded = FirstBad => pc \in {"l163", "crashed"}
    /\ pc = "crashed" =>
         /\ yielded = FirstBad
         /\ err = (IF Matches[FirstBad].bracket = "absent"
                     THEN "IndexError" ELSE "ValueError")
         /\ Len(timeval) = FirstBad - 1
         /\ Len(out) = FirstBad - 1

C7_Witness ==
  /\ pc = "crashed"
  /\ err = "ValueError"
  /\ FirstBad = 2
  /\ Len(Matches) = 3
  /\ Len(out) = 1

\* C8 as stated: for an invalid pattern the call grep_file(name, pattern)
\* itself fails, so main never holds a generator and never requests a line
C8_AtConstruction ==
  (name_exists /\ ~ValidRegex(pattern)) =>
    /\ gen = "none"
    /\ requests = 0
    /\ handle = "unopened"

\* C8 amended: for an invalid pattern the call grep_file returns a generator;
\* the failure (re.error) is raised when main requests the first line, before
\* the file is opened and before any line is read
C8_AtFirstRequest ==
  (name_exists /\ ~ValidRegex(pattern)) =>
    /\ handle = "unopened"
    /\ patexp = "none"
    /\ pos = 0
    /\ pc \in {"l156", "l161", "l162", "crashed"}
    /\ pc = "l162" => (gen = "created" /\ requests = 0)
    /\ pc = "crashed" => (err = "re.error" /\ requests = 1 /\ out = <<>>)

C8_Witness ==
  /\ name_exists
  /\ ~ValidRegex(pattern)
  /\ Len(file) > 0
  /\ pc = "crashed"
  /\ requests = 1

\* C9: whenever main is about to request a line or has ended the scan, count
\* is the length of timeval, the number of rewritten lines printed and the
\* number of lines yielded; timeval holds the timestamps of the matching
\* lines as written (wall clock and offset), in file order; at the end of the
\* scan count is the number of matching lines, which the summary reports
C9_LoopInvariant ==
  name_exists =>
    /\ \A i \in 1..Len(timeval) :
         timeval[i] = [wall |-> Matches[i].wall, off |-> Matches[i].off]
    /\ pc \in {"l162", "l169", "done"} =>
         /\ count = Len(timeval)
         /\ count = Len(Printed)
         /\ count = yielded
    /\ pc \in {"l169", "done"} => count = Len(Matches)
    /\ (pc = "done" /\ count > 1) =>
         out[Len(out) - 1] =
           [Msg("Counted word") EXCEPT !.text = pattern, !.count = Len(Matches)]

C9_Witness ==
  /\ pc = "l162"
  /\ count = 2
  /\ Len(file) = 3
  /\ pos = 2
  /\ timeval[1].off # 0

\* C10: with N >= 2 matches the average is (tN - t1) / (N - 1) (to the
\* microsecond): it depends on the first and the last matching instant and on
\* N only, and is zero or negative when the last instant is not after the first
C10_Telescope ==
  LET M == Matches
      N == Len(M)
  IN (pc = "done" /\ name_exists /\ N >= 2) =>
       /\ Nearest(average, (Instant(M[N]) - Instant(M[1])) * Microsecond, N - 1)
       /\ Instant(M[N]) <= Instant(M[1]) => average <= 0
       /\ Instant(M[N]) = Instant(M[1]) => average = 0

C10_Witness ==
  /\ pc = "done"
  /\ Len(Matches) = 3
  /\ Instant(Matches[2]) > Instant(Matches[1])
  /\ Instant(Matches[3]) = Instant(Matches[1])
  /\ Matches[3].off # Matches[1].off
  /\ average = 0

====
